---- MODULE Spec2Model ----
(***************************************************************************)
(* Model of the backtesting engine, src/ai-dev-ide/utils/backtest.py:      *)
(* class BacktestEngine with __init__, run_backtest and calculate_metrics. *)
(*                                                                         *)
(* Numbers.  The engine computes in Python/numpy floating point.  The      *)
(* model computes in exact rationals <<n, d>> (d > 0, lowest terms), plus  *)
(* the IEEE results of a division by zero, which numpy scalars return      *)
(* instead of raising: NaN == <<0, 0>>, +inf == <<1, 0>>, -inf == <<-1, 0>>*)
(* Rounding is not modelled.                                               *)
(***************************************************************************)
EXTENDS Integers, Sequences, FiniteSets, TLC

\* ------------------------------------------------------------------ bounds
\* Most position records one engine instance accumulates over its lifetime
\* (all of its run_backtest calls together).
MaxBars == 3

\* Most run_backtest calls begun on one engine instance.
MaxCalls == 2

\* Close prices a bar may carry (positive: price data).
Prices == {1, 2}

\* Values the constructor may be given as initial_capital; it takes any number,
\* the ones <= 0 too.
Capitals == {-2, 0, 2}

Engines == {1, 2}
Threads == {1, 2}

\* -------------------------------------------------------------- arithmetic
RECURSIVE Gcd(_, _)
Gcd(a, b) == IF b = 0 THEN a ELSE Gcd(b, a % b)

Abs(x) == IF x < 0 THEN -x ELSE x

\* The rational n/d in lowest terms with a positive denominator (d # 0).
Norm(n, d) ==
    LET g == Gcd(Abs(n), Abs(d))
        s == IF d < 0 THEN -1 ELSE 1
    IN  <<(s * n) \div g, (s * d) \div g>>

R(n) == <<n, 1>>
Zero == <<0, 1>>
NaN == <<0, 0>>
Inf(sign) == <<sign, 0>>

Finite(x) == x[2] # 0
IsNaN(x) == x = NaN
Sign(x) == IF x[1] > 0 THEN 1 ELSE IF x[1] < 0 THEN -1 ELSE 0

FNeg(a) == <<-a[1], a[2]>>

\* a + b in IEEE terms: NaN absorbs, inf + (-inf) is NaN.
FAdd(a, b) ==
    IF Finite(a) /\ Finite(b)
    THEN LET g == Gcd(a[2], b[2])
         IN  Norm(a[1] * (b[2] \div g) + b[1] * (a[2] \div g), (a[2] \div g) * b[2])
    ELSE IF IsNaN(a) \/ IsNaN(b) THEN NaN
    ELSE IF Finite(b) THEN a
    ELSE IF Finite(a) THEN b
    ELSE IF a = b THEN a ELSE NaN

FSub(a, b) == FAdd(a, FNeg(b))

\* a * b in IEEE terms: 0 * inf is NaN.
FMul(a, b) ==
    IF Finite(a) /\ Finite(b)
    THEN LET g == Gcd(Abs(a[1]), b[2])
             h == Gcd(Abs(b[1]), a[2])
         IN  Norm((a[1] \div g) * (b[1] \div h), (a[2] \div h) * (b[2] \div g))
    ELSE IF IsNaN(a) \/ IsNaN(b) THEN NaN
    ELSE IF Sign(a) = 0 \/ Sign(b) = 0 THEN NaN
    ELSE Inf(Sign(a) * Sign(b))

\* a / b as numpy's true division of scalars: x/0 is +-inf, 0/0 is NaN (a
\* warning, no exception).
FDiv(a, b) ==
    IF IsNaN(a) \/ IsNaN(b) THEN NaN
    ELSE IF Finite(a) /\ Finite(b)
    THEN IF b[1] # 0 THEN FMul(a, Norm(b[2], b[1]))
         ELSE IF a[1] = 0 THEN NaN ELSE Inf(Sign(a))
    ELSE IF Finite(a) THEN Zero
    ELSE IF Finite(b) THEN Inf(IF Sign(b) < 0 THEN -Sign(a) ELSE Sign(a))
    ELSE NaN

\* a < b, a > b: False when an operand is NaN.
FLt(a, b) ==
    IF IsNaN(a) \/ IsNaN(b) THEN FALSE
    ELSE IF Finite(a) /\ Finite(b) THEN a[1] * b[2] < b[1] * a[2]
    ELSE a # b /\ (a = Inf(-1) \/ b = Inf(1))
FGt(a, b) == FLt(b, a)

\* ------------------------------------------------------------------ inputs
\* A bar series of n bars: data.index[k] is k (strictly increasing), close from Prices.
BarSeries(n) ==
    { [k \in 1..n |-> [timestamp |-> k, close |-> ps[k]]] : ps \in [1..n -> Prices] }

\* What one call of the strategy can do: return a signal, return something that
\* is no signal ("X"), or raise ("RAISE").
Signals == {"BUY", "SELL", "HOLD"}
Outcomes == Signals \cup {"X", "RAISE"}

\* A strategy is a function of (data, i); on a given series it is the sequence
\* of its outcomes by index.
Strategies(n) == [1..n -> Outcomes]

\* Sequence xs is a prefix of sequence ys.
IsPrefix(xs, ys) == Len(xs) <= Len(ys) /\ SubSeq(ys, 1, Len(xs)) = xs

\* Every (data, strategy) pair a caller may pass to run_backtest.
AllWorkloads ==
    UNION { { <<d, s>> : d \in BarSeries(n), s \in Strategies(n) } : n \in 0..MaxBars }

\* ------------------------------------------------------------------- state
VARIABLES
    initial_capital,  \* engine -> self.initial_capital
    positions,        \* engine -> self.positions, the list of per-bar records
    trades,           \* engine -> self.trades, the list of trade records
    equity_curve,     \* engine -> self.equity_curve, the list of equities
    pc,               \* thread -> "idle" (outside a call) | "loop" (inside run_backtest)
                      \*           | "raised" (an exception left its call)
    self,             \* thread -> the engine its current or last call is on
    data,             \* thread -> argument data of its current or last run_backtest
    strategy,         \* thread -> argument strategy of that call
    i,                \* thread -> loop index of run_backtest (0-based, as in the code)
    capital,          \* thread -> local capital of run_backtest
    position,         \* thread -> local position of run_backtest
    equity,           \* thread -> local equity of run_backtest
    ret,              \* thread -> what its last call returned or raised
    base,             \* thread -> history: lengths of the engine's lists when the call began
    ncalls,           \* engine -> history: the run_backtest calls begun on it
    invoked,          \* thread -> history: the indices its run has called the strategy with
    owner,            \* engine -> the threads that hold a reference to it
    same_input        \* <<>>: callers pass any input; <<w>>: every call passes the same
                      \* w = <<data, strategy>> (the same bars, the same pure strategy);
                      \* <<w, P>>: the callers in P pass the first k bars of w, any
                      \* k, the others w

engineVars == <<initial_capital, positions, trades, equity_curve>>
frameVars == <<self, data, strategy, i, capital, position, equity, base, invoked>>
histVars == <<ncalls, owner, same_input>>
vars == <<initial_capital, positions, trades, equity_curve, pc, self, data, strategy,
          i, capital, position, equity, ret, base, invoked, ncalls, owner, same_input>>

NoReturn == [kind |-> "none"]
Raised == [kind |-> "raise"]

\* Mutant of OwnLists: the lists are class attributes, one object for all instances.
SharedLists(e) == 1

\* The engine whose list objects self.positions, self.trades and
\* self.equity_curve of engine e are: __init__ creates them per instance.
OwnLists(e) == e

\* __init__: the engine keeps initial_capital and three empty lists of its own.
NewEngine(c) ==
    [initial_capital |-> R(c), positions |-> <<>>, trades |-> <<>>, equity_curve |-> <<>>]

\* The state after construction of the engines E with initial capitals given by
\* one of CS, with callers T that have called nothing yet; O is who holds which
\* engine, W is <<>>, <<w>> or <<w, P>>, see same_input.
InitFor(E, CS, T, O, W) ==
    /\ \E cs \in CS :
         /\ initial_capital = [e \in E |-> NewEngine(cs[e]).initial_capital]
         /\ positions = [e \in E |-> NewEngine(cs[e]).positions]
         /\ trades = [e \in E |-> NewEngine(cs[e]).trades]
         /\ equity_curve = [e \in E |-> NewEngine(cs[e]).equity_curve]
    /\ pc = [t \in T |-> "idle"]
    /\ self = [t \in T |-> CHOOSE e \in E : \A f \in E : e <= f]
    /\ data = [t \in T |-> <<>>]
    /\ strategy = [t \in T |-> <<>>]
    /\ i = [t \in T |-> 0]
    /\ capital = [t \in T |-> Zero]
    /\ position = [t \in T |-> Zero]
    /\ equity = [t \in T |-> Zero]
    /\ ret = [t \in T |-> NoReturn]
    /\ base = [t \in T |-> [positions |-> 0, trades |-> 0]]
    /\ invoked = [t \in T |-> <<>>]
    /\ ncalls = [e \in E |-> 0]
    /\ owner = O
    /\ same_input = W

\* Records still to be appended to engine e by the runs in progress on it.
RECURSIVE Pending(_, _)
Pending(e, T) ==
    IF T = {} THEN 0
    ELSE LET t == CHOOSE u \in T : TRUE
         IN  (IF pc[t] = "loop" /\ self[t] = e THEN Len(data[t]) - i[t] ELSE 0)
             + Pending(e, T \ {t})

\* The records an engine may hold within the bound: MaxBars, or one run of the
\* fixed input where that is longer.
MaxRecords ==
    IF same_input # <<>> /\ Len(same_input[1][1]) > MaxBars
    THEN Len(same_input[1][1]) ELSE MaxBars

\* Records engine e can still take within the bound.
Room(e) == MaxRecords - (Len(positions[e]) + Pending(e, DOMAIN pc))

\* The inputs a caller may pass to run_backtest on engine e within the bounds:
\* the lengths, the bar series and the strategies.
LengthsFor(e) ==
    IF same_input = <<>> THEN 0..Room(e)
    ELSE IF Len(same_input) = 1 THEN {Len(same_input[1][1])}
    ELSE 0..Len(same_input[1][1])
DataFor(n) == IF same_input # <<>> THEN {SubSeq(same_input[1][1], 1, n)} ELSE BarSeries(n)
StrategiesFor(n) ==
    IF same_input # <<>> THEN {SubSeq(same_input[1][2], 1, n)} ELSE Strategies(n)

\* ------------------------------------------------------------ run_backtest
\* Mutant of StrategyCall: the strategy is asked about the last bar of data.
StrategyCallLast(s, d, idx) == s[Len(s)]

\* strategy(data, i)
StrategyCall(s, d, idx) == s[idx + 1]

\* Mutant of StartCapital: a run goes on from the equity the last run ended with.
StartCapitalCarriedOver(e) ==
    IF equity_curve[e] = <<>> THEN initial_capital[e]
    ELSE equity_curve[e][Len(equity_curve[e])]

\* capital = self.initial_capital
StartCapital(e) == initial_capital[e]

\* Mutant of BuyGuard: the position is not looked at.
BuyGuardAnyPosition(signal, pos) == signal = "BUY"

\* signal == 'BUY' and position == 0
BuyGuard(signal, pos) == signal = "BUY" /\ pos = Zero

\* signal == 'SELL' and position > 0
SellGuard(signal, pos) == signal = "SELL" /\ FGt(pos, Zero)

\* Mutant of TradeRecord: the SELL record is written after position = 0.
TradeRecordAfterReset(ts, type, price, shares) ==
    [timestamp |-> ts, type |-> type, price |-> price,
     shares |-> IF type = "SELL" THEN Zero ELSE shares]

\* The trade dict appended on a BUY or a SELL.
TradeRecord(ts, type, price, shares) ==
    [timestamp |-> ts, type |-> type, price |-> price, shares |-> shares]

\* Mutant of Transition: the BUY branch forgets capital = 0.
TransitionKeepsCapital(signal, cap, pos, ts, price) ==
    IF signal = "BUY" /\ pos = Zero
    THEN [capital |-> cap, position |-> FDiv(cap, price),
          trades |-> <<[timestamp |-> ts, type |-> "BUY", price |-> price,
                        shares |-> FDiv(cap, price)]>>]
    ELSE IF signal = "SELL" /\ FGt(pos, Zero)
    THEN [capital |-> FMul(pos, price), position |-> Zero,
          trades |-> <<[timestamp |-> ts, type |-> "SELL", price |-> price,
                        shares |-> pos]>>]
    ELSE [capital |-> cap, position |-> pos, trades |-> <<>>]

\* Mutant of Transition: the BUY branch multiplies by the price.
TransitionBuyMultiplies(signal, cap, pos, ts, price) ==
    IF signal = "BUY" /\ pos = Zero
    THEN [capital |-> Zero, position |-> FMul(cap, price),
          trades |-> <<[timestamp |-> ts, type |-> "BUY", price |-> price,
                        shares |-> FMul(cap, price)]>>]
    ELSE IF signal = "SELL" /\ FGt(pos, Zero)
    THEN [capital |-> FMul(pos, price), position |-> Zero,
          trades |-> <<[timestamp |-> ts, type |-> "SELL", price |-> price,
                        shares |-> pos]>>]
    ELSE [capital |-> cap, position |-> pos, trades |-> <<>>]

\* Mutant of Transition: the SELL branch takes the share count as the proceeds.
TransitionSellsAtPar(signal, cap, pos, ts, price) ==
    IF signal = "BUY" /\ pos = Zero
    THEN [capital |-> Zero, position |-> FDiv(cap, price),
          trades |-> <<[timestamp |-> ts, type |-> "BUY", price |-> price,
                        shares |-> FDiv(cap, price)]>>]
    ELSE IF signal = "SELL" /\ FGt(pos, Zero)
    THEN [capital |-> pos, position |-> Zero,
          trades |-> <<[timestamp |-> ts, type |-> "SELL", price |-> price,
                        shares |-> pos]>>]
    ELSE [capital |-> cap, position |-> pos, trades |-> <<>>]

\* Mutant of Transition: a fee of 1 is taken from the proceeds of a SELL.
TransitionWithFee(signal, cap, pos, ts, price) ==
    IF signal = "BUY" /\ pos = Zero
    THEN [capital |-> Zero, position |-> FDiv(cap, price),
          trades |-> <<[timestamp |-> ts, type |-> "BUY", price |-> price,
                        shares |-> FDiv(cap, price)]>>]
    ELSE IF signal = "SELL" /\ FGt(pos, Zero)
    THEN [capital |-> FSub(FMul(pos, price), R(1)), position |-> Zero,
          trades |-> <<[timestamp |-> ts, type |-> "SELL", price |-> price,
                        shares |-> pos]>>]
    ELSE [capital |-> cap, position |-> pos, trades |-> <<>>]

\* Mutant of Transition: the SELL branch appends its trade dict twice.
TransitionLogsTwice(signal, cap, pos, ts, price) ==
    IF signal = "BUY" /\ pos = Zero
    THEN [capital |-> Zero, position |-> FDiv(cap, price),
          trades |-> <<[timestamp |-> ts, type |-> "BUY", price |-> price,
                        shares |-> FDiv(cap, price)]>>]
    ELSE IF signal = "SELL" /\ FGt(pos, Zero)
    THEN [capital |-> FMul(pos, price), position |-> Zero,
          trades |-> <<[timestamp |-> ts, type |-> "SELL", price |-> price,
                        shares |-> pos],
                       [timestamp |-> ts, type |-> "SELL", price |-> price,
                        shares |-> pos]>>]
    ELSE [capital |-> cap, position |-> pos, trades |-> <<>>]

\* The if/elif of one iteration: the new capital and position and the trades appended.
Transition(signal, cap, pos, ts, price) ==
    IF BuyGuard(signal, pos)
    THEN LET shares == FDiv(cap, price)
         IN  [capital |-> Zero, position |-> shares,
              trades |-> <<TradeRecord(ts, "BUY", price, shares)>>]
    ELSE IF SellGuard(signal, pos)
    THEN [capital |-> FMul(pos, price), position |-> Zero,
          trades |-> <<TradeRecord(ts, "SELL", price, pos)>>]
    ELSE [capital |-> cap, position |-> pos, trades |-> <<>>]

\* Mutant of Equity: the open position is not marked to market.
EquityCashOnly(cap, pos, price) == cap

\* equity = capital + (position * current_price)
Equity(cap, pos, price) == FAdd(cap, FMul(pos, price))

\* The dict appended to self.positions.
PositionRecord(ts, price, pos, cap, eq) ==
    [timestamp |-> ts, price |-> price, position |-> pos, capital |-> cap, equity |-> eq]

\* Entry of run_backtest(data, strategy) on engine e by thread t: the three locals.
Call(t, e, d, s) ==
    /\ pc[t] = "idle"
    /\ t \in owner[e]
    /\ Len(d) = Len(s)
    /\ same_input # <<>> =>
           /\ IsPrefix(d, same_input[1][1]) /\ IsPrefix(s, same_input[1][2])
           /\ (Len(same_input) = 1 \/ t \notin same_input[2]) => <<d, s>> = same_input[1]
    /\ Len(d) <= Room(e)
    /\ ncalls[e] < MaxCalls
    /\ pc' = [pc EXCEPT ![t] = "loop"]
    /\ self' = [self EXCEPT ![t] = e]
    /\ data' = [data EXCEPT ![t] = d]
    /\ strategy' = [strategy EXCEPT ![t] = s]
    /\ i' = [i EXCEPT ![t] = 0]
    /\ capital' = [capital EXCEPT ![t] = StartCapital(e)]
    /\ position' = [position EXCEPT ![t] = Zero]
    /\ equity' = [equity EXCEPT ![t] = StartCapital(e)]
    /\ ret' = [ret EXCEPT ![t] = NoReturn]
    /\ base' = [base EXCEPT ![t] = [positions |-> Len(positions[OwnLists(e)]),
                                    trades |-> Len(trades[OwnLists(e)])]]
    /\ invoked' = [invoked EXCEPT ![t] = <<>>]
    /\ ncalls' = [ncalls EXCEPT ![e] = @ + 1]
    /\ UNCHANGED <<engineVars, owner, same_input>>

\* One iteration of the for loop in which the strategy returns.
Step(t) ==
    /\ pc[t] = "loop"
    /\ i[t] < Len(data[t])
    /\ StrategyCall(strategy[t], data[t], i[t]) # "RAISE"
    /\ LET e == OwnLists(self[t])
           ts == data[t][i[t] + 1].timestamp
           current_price == R(data[t][i[t] + 1].close)
           signal == StrategyCall(strategy[t], data[t], i[t])
       IN  \* tr and eq are bound, not defined, so that each is computed once
           \E tr \in {Transition(signal, capital[t], position[t], ts, current_price)} :
           \E eq \in {Equity(tr.capital, tr.position, current_price)} :
               /\ capital' = [capital EXCEPT ![t] = tr.capital]
               /\ position' = [position EXCEPT ![t] = tr.position]
               /\ equity' = [equity EXCEPT ![t] = eq]
               /\ trades' = [trades EXCEPT ![e] = @ \o tr.trades]
               /\ equity_curve' = [equity_curve EXCEPT ![e] = Append(@, eq)]
               /\ positions' = [positions EXCEPT ![e] =
                      Append(@, PositionRecord(ts, current_price, tr.position, tr.capital, eq))]
    /\ i' = [i EXCEPT ![t] = @ + 1]
    /\ invoked' = [invoked EXCEPT ![t] = Append(@, i[t])]
    /\ UNCHANGED <<initial_capital, pc, self, data, strategy, ret, base, histVars>>

\* Mutant of StepRaise: the entries of the failed run are taken back.
StepRaiseRollsBack(t) ==
    /\ pc[t] = "loop"
    /\ i[t] < Len(data[t])
    /\ StrategyCall(strategy[t], data[t], i[t]) = "RAISE"
    /\ pc' = [pc EXCEPT ![t] = "raised"]
    /\ ret' = [ret EXCEPT ![t] = Raised]
    /\ invoked' = [invoked EXCEPT ![t] = Append(@, i[t])]
    /\ LET e == OwnLists(self[t])
       IN  /\ positions' = [positions EXCEPT ![e] = SubSeq(@, 1, base[t].positions)]
           /\ equity_curve' = [equity_curve EXCEPT ![e] = SubSeq(@, 1, base[t].positions)]
           /\ trades' = [trades EXCEPT ![e] = SubSeq(@, 1, base[t].trades)]
    /\ UNCHANGED <<initial_capital, self, data, strategy, i, capital, position, equity, base,
                   histVars>>

\* An iteration in which the strategy raises: the exception leaves run_backtest
\* (the code catches nothing) before anything is appended for this bar.  The
\* caller is not followed further: pc "raised" is final for the thread.
StepRaise(t) ==
    /\ pc[t] = "loop"
    /\ i[t] < Len(data[t])
    /\ StrategyCall(strategy[t], data[t], i[t]) = "RAISE"
    /\ pc' = [pc EXCEPT ![t] = "raised"]
    /\ ret' = [ret EXCEPT ![t] = Raised]
    /\ invoked' = [invoked EXCEPT ![t] = Append(@, i[t])]
    /\ UNCHANGED <<engineVars, self, data, strategy, i, capital, position, equity, base,
                   histVars>>

\* Mutant of Return: the loop is over range(len(data) - 1).
ReturnEarly(t) ==
    /\ pc[t] = "loop"
    /\ i[t] = Len(data[t]) - 1 \/ data[t] = <<>>
    /\ pc' = [pc EXCEPT ![t] = "idle"]
    /\ ret' = [ret EXCEPT ![t] = [kind |-> "frame", rows |-> positions[OwnLists(self[t])]]]
    /\ UNCHANGED <<engineVars, frameVars, histVars>>

\* return pd.DataFrame(self.positions), once the loop has run out.
Return(t) ==
    /\ pc[t] = "loop"
    /\ i[t] = Len(data[t])
    /\ pc' = [pc EXCEPT ![t] = "idle"]
    /\ ret' = [ret EXCEPT ![t] = [kind |-> "frame", rows |-> positions[OwnLists(self[t])]]]
    /\ UNCHANGED <<engineVars, frameVars, histVars>>

\* run_backtest as a function: the locals and the lists after the first k
\* iterations of a run of strategy s over the bars d, alone on a new engine
\* with initial capital c.
RECURSIVE RunAlone(_, _, _, _)
RunAlone(c, d, s, k) ==
    IF k = 0
    THEN [capital |-> c, position |-> Zero, trades |-> <<>>, positions |-> <<>>,
          equity_curve |-> <<>>]
    ELSE LET p == RunAlone(c, d, s, k - 1)
             ts == d[k].timestamp
             current_price == R(d[k].close)
             tr == Transition(StrategyCall(s, d, k - 1), p.capital, p.position, ts,
                              current_price)
             eq == Equity(tr.capital, tr.position, current_price)
         IN  [capital |-> tr.capital, position |-> tr.position,
              trades |-> p.trades \o tr.trades,
              positions |-> Append(p.positions,
                  PositionRecord(ts, current_price, tr.position, tr.capital, eq)),
              equity_curve |-> Append(p.equity_curve, eq)]

\* ------------------------------------------------------- calculate_metrics
\* df['equity']
EquityColumn(rows) == [k \in 1..Len(rows) |-> rows[k].equity]

\* df['equity'].pct_change(): NaN in the first row, then equity[k]/equity[k-1] - 1.
PctChange(eq) ==
    [k \in 1..Len(eq) |-> IF k = 1 THEN NaN ELSE FSub(FDiv(eq[k], eq[k - 1]), R(1))]

\* The values pandas reductions look at (skipna): the ones that are not NaN.
NotNaN(x) == ~IsNaN(x)
DropNaN(xs) == SelectSeq(xs, NotNaN)

RECURSIVE SumSeq(_)
SumSeq(xs) == IF xs = <<>> THEN Zero ELSE FAdd(xs[1], SumSeq(Tail(xs)))

\* Series.mean(): NaN for no values.
Mean(xs) ==
    LET v == DropNaN(xs)
    IN  IF v = <<>> THEN NaN ELSE FDiv(SumSeq(v), R(Len(v)))

\* The square of Series.std() (sample standard deviation, ddof = 1): NaN for
\* fewer than two values.
Variance(xs) ==
    LET v == DropNaN(xs)
        m == Mean(xs)
        sq == [k \in 1..Len(v) |-> FMul(FSub(v[k], m), FSub(v[k], m))]
    IN  IF Len(v) < 2 THEN NaN ELSE FDiv(SumSeq(sq), R(Len(v) - 1))

\* The annualisation factor under the square root.
TradingDays == 252

\* sharpe_ratio, carried as its signed square sign(x) * x^2 (x itself is
\* irrational): (mean / std) * sqrt(252) when std > 0, else 0.  std > 0 exactly
\* when std^2 > 0, and a NaN std compares False.
SharpeRatio(returns) ==
    LET m == Mean(returns)
        v == Variance(returns)
    IN  IF FGt(v, Zero)
        THEN FMul(R(Sign(m)), FDiv(FMul(FMul(m, m), R(TradingDays)), v))
        ELSE Zero

FMax(a, b) == IF FGt(b, a) THEN b ELSE a
FMin(a, b) == IF FLt(b, a) THEN b ELSE a

\* df['equity'].cummax()
RECURSIVE CumMax(_)
CumMax(eq) ==
    IF Len(eq) <= 1 THEN eq
    ELSE LET front == CumMax(SubSeq(eq, 1, Len(eq) - 1))
         IN  Append(front, FMax(front[Len(front)], eq[Len(eq)]))

\* (df['equity'] - df['cummax']) / df['cummax']
Drawdown(eq) ==
    LET cm == CumMax(eq)
    IN  [k \in 1..Len(eq) |-> FDiv(FSub(eq[k], cm[k]), cm[k])]

\* Series.min(): NaN for no values.
RECURSIVE MinSeq(_)
MinSeq(xs) ==
    LET v == DropNaN(xs)
    IN  IF v = <<>> THEN NaN
        ELSE IF Len(v) = 1 THEN v[1]
        ELSE FMin(v[1], MinSeq(Tail(v)))

\* list.index(x) + 1: the first place of the list that holds a dict equal to x.
IndexOf(xs, x) == CHOOSE k \in 1..Len(xs) : xs[k] = x /\ \A j \in 1..(k - 1) : xs[j] # x

\* self.trades[self.trades.index(t) - 1]; Python's index -1 is the last element.
TradeBefore(ts, t) ==
    LET k == IndexOf(ts, t)
    IN  IF k = 1 THEN ts[Len(ts)] ELSE ts[k - 1]

\* The condition of the winning_trades comprehension, for the trade at place k.
IsWinning(ts, k) ==
    /\ ts[k].type = "SELL"
    /\ FGt(FSub(ts[k].price, TradeBefore(ts, ts[k]).price), Zero)

\* len(winning_trades) / (len(self.trades) / 2) if self.trades else 0
WinRate(ts) ==
    IF ts = <<>> THEN Zero
    ELSE FDiv(R(Cardinality({k \in 1..Len(ts) : IsWinning(ts, k)})),
              FDiv(R(Len(ts)), R(2)))

\* len(self.trades) // 2
NumTrades(ts) == Len(ts) \div 2

\* The empty dict, returned for an engine without position records.
EmptyDict == [key \in {} |-> Zero]

\* Mutant of Metrics: the equity is read with iloc[0] instead of iloc[-1].
MetricsOfFirstRecord(e) ==
    LET eq == EquityColumn(positions[OwnLists(e)])
        returns == PctChange(eq)
        last == eq[1]
    IN  [total_return |-> FSub(FDiv(last, initial_capital[e]), R(1)),
         sharpe_ratio |-> SharpeRatio(returns),
         max_drawdown |-> MinSeq(Drawdown(eq)),
         win_rate |-> WinRate(trades[OwnLists(e)]),
         num_trades |-> R(NumTrades(trades[OwnLists(e)])),
         final_equity |-> last]

\* The dict calculate_metrics returns for an engine with position records.
Metrics(e) ==
    LET eq == EquityColumn(positions[OwnLists(e)])
        returns == PctChange(eq)
        last == eq[Len(eq)]
    IN  [total_return |-> FSub(FDiv(last, initial_capital[e]), R(1)),
         sharpe_ratio |-> SharpeRatio(returns),
         max_drawdown |-> MinSeq(Drawdown(eq)),
         win_rate |-> WinRate(trades[OwnLists(e)]),
         num_trades |-> R(NumTrades(trades[OwnLists(e)])),
         final_equity |-> last]

\* Mutant of CalculateMetrics: the trades are consumed while they are paired.
CalculateMetricsConsuming(t, e) ==
    /\ pc[t] = "idle"
    /\ t \in owner[e]
    /\ ret' = [ret EXCEPT ![t] =
           [kind |-> "metrics", engine |-> e,
            dict |-> IF positions[OwnLists(e)] = <<>> THEN EmptyDict ELSE Metrics(e)]]
    /\ trades' = [trades EXCEPT ![OwnLists(e)] = <<>>]
    /\ UNCHANGED <<initial_capital, positions, equity_curve, pc, frameVars, histVars>>

\* calculate_metrics() on engine e by thread t.
CalculateMetrics(t, e) ==
    /\ pc[t] = "idle"
    /\ t \in owner[e]
    /\ ret' = [ret EXCEPT ![t] =
           [kind |-> "metrics", engine |-> e,
            dict |-> IF positions[OwnLists(e)] = <<>> THEN EmptyDict ELSE Metrics(e)]]
    /\ UNCHANGED <<engineVars, pc, frameVars, histVars>>

Next ==
    \/ \E t \in DOMAIN pc, e \in DOMAIN positions : CalculateMetrics(t, e)
    \/ \E t \in DOMAIN pc, e \in DOMAIN positions :
         \E n \in LengthsFor(e) : \E d \in DataFor(n), s \in StrategiesFor(n) : Call(t, e, d, s)
    \/ \E t \in DOMAIN pc : Step(t)
    \/ \E t \in DOMAIN pc : StepRaise(t)
    \/ \E t \in DOMAIN pc : Return(t)

\* One engine, one caller, any workload: the synchronous use of the engine.
Init == InitFor({1}, [{1} -> Capitals], {1}, [e \in {1} |-> {1}], <<>>)
Spec == Init /\ [][Next]_vars

\* The same with the progress Python gives the caller: a call of run_backtest
\* that has begun goes on, iteration by iteration, until it returns or raises.
SpecFair == Spec /\ WF_vars(Step(1) \/ StepRaise(1) \/ Return(1))

\* Two callers, each with an engine it constructed itself with the same
\* initial_capital; all calls pass the same bars and the same pure strategy, and
\* the callers' steps interleave.
InitPair ==
    \E w \in AllWorkloads :
        InitFor(Engines, {[e \in Engines |-> c] : c \in Capitals}, Threads,
                [e \in Engines |-> {e}], <<w>>)
SpecPair == InitPair /\ [][Next]_vars

\* Two callers that hold the same engine and pass it the same bars and the same
\* pure strategy, their steps interleaved.
InitShared ==
    \E w \in AllWorkloads :
        InitFor({1}, [{1} -> Capitals], Threads, [e \in {1} |-> Threads], <<w>>)
SpecShared == InitShared /\ [][Next]_vars

\* Two callers, each with an engine it constructed itself with the same valid
\* initial_capital.  Caller 1 passes a series of MaxBars bars, caller 2 the
\* first k bars of it, for any k; both pass the same pure strategy, which
\* decides by the bars up to the current one.
InitPrefix ==
    \E w \in AllWorkloads :
        /\ Len(w[1]) = MaxBars
        /\ InitFor(Engines, {[e \in Engines |-> c] : c \in {b \in Capitals : b > 0}},
                   Threads, [e \in Engines |-> {e}], <<w, {2}>>)
SpecPrefix == InitPrefix /\ [][Next]_vars

\* The bars and the initial capital of the specification's worked scenario.
ScenarioCloses == <<100, 110, 90, 120>>
ScenarioBars ==
    [k \in 1..Len(ScenarioCloses) |-> [timestamp |-> k, close |-> ScenarioCloses[k]]]
ScenarioCapitals == {1000}

\* One engine with the scenario's capital, one caller, the scenario's bars and
\* any strategy on them.
InitScenario ==
    \E s \in Strategies(Len(ScenarioBars)) :
        InitFor({1}, [{1} -> ScenarioCapitals], {1}, [e \in {1} |-> {1}],
                <<<<ScenarioBars, s>>>>)
SpecScenario == InitScenario /\ [][Next]_vars

\* ------------------------------------------------------------------ claims
\* A thread whose last call was a run_backtest that returned its DataFrame.
Returned(t) == pc[t] = "idle" /\ ret[t].kind = "frame"

\* A thread whose last call was a calculate_metrics that returned a non-empty dict.
GotMetrics(t) == pc[t] = "idle" /\ ret[t].kind = "metrics" /\ ret[t].dict # EmptyDict

\* An engine constructed with an initial_capital > 0, as its contract requires.
ValidCapital(e) == FGt(initial_capital[e], Zero)

\* A returned run on valid input: some bars, an initial_capital > 0.
ReturnedValid(t) == Returned(t) /\ data[t] # <<>> /\ ValidCapital(self[t])

\* The trade types alternate BUY, SELL, BUY, ... from the first entry on.
Alternates(ts) == \A k \in 1..Len(ts) : ts[k].type = (IF k % 2 = 1 THEN "BUY" ELSE "SELL")

\* C1: in every state the trade list of every engine (constructed with a valid
\* initial_capital) alternates BUY, SELL, BUY, SELL, ... and starts with a BUY
\* when it is not empty.
C1_TradesAlternate == \A e \in DOMAIN trades : ValidCapital(e) => Alternates(trades[e])

\* C1, restricted to an engine with initial_capital > 0 on which at most one
\* run_backtest call was ever begun.
C1_AlternateFirstRun ==
    \A e \in DOMAIN trades :
        (ncalls[e] <= 1 /\ ValidCapital(e)) => Alternates(trades[e])

\* C2: every position record of every engine has capital == 0 or position == 0.
C2_CashOrShares ==
    \A e \in DOMAIN positions : \A k \in 1..Len(positions[e]) :
        positions[e][k].capital = Zero \/ positions[e][k].position = Zero

\* C2's case: an engine holds a record written while invested (shares > 0) and
\* a later one written after the sale (capital > 0).
C2_Witness ==
    \E e \in DOMAIN positions : \E j, k \in 1..Len(positions[e]) :
        /\ j < k
        /\ FGt(positions[e][j].position, Zero)
        /\ FGt(positions[e][k].capital, Zero)

\* C3: the DataFrame a run_backtest call on valid input returns has as many
\* rows as the data it was called with has bars.
C3_OneRecordPerBar ==
    \A t \in DOMAIN pc : ReturnedValid(t) => Len(ret[t].rows) = Len(data[t])

\* C3, restricted to the first run_backtest call on an engine.
C3_OneRecordPerBarFirstRun ==
    \A t \in DOMAIN pc :
        (Returned(t) /\ ncalls[self[t]] = 1) => Len(ret[t].rows) = Len(data[t])

\* C4: when a run on valid input has returned, the engine's trade list has even
\* length exactly if the run ended flat (position == 0) and odd length exactly
\* if it ended with an open position (position > 0).
C4_ParityMatchesPosition ==
    \A t \in DOMAIN pc :
        ReturnedValid(t) =>
            /\ (Len(trades[self[t]]) % 2 = 0) <=> (position[t] = Zero)
            /\ (Len(trades[self[t]]) % 2 = 1) <=> FGt(position[t], Zero)

\* C4, restricted to the first run on an engine with initial_capital > 0.
C4_ParityFirstRun ==
    \A t \in DOMAIN pc :
        (Returned(t) /\ ncalls[self[t]] = 1 /\ ValidCapital(self[t])) =>
            /\ (Len(trades[self[t]]) % 2 = 0) <=> (position[t] = Zero)
            /\ (Len(trades[self[t]]) % 2 = 1) <=> FGt(position[t], Zero)

\* The win rate by positional pairing: of the floor(len/2) pairs (trade 2m,
\* trade 2m+1), counted from 0, the share that is a BUY followed by a SELL at a
\* higher price; 0 without a pair.
PositionalWinRate(ts) ==
    LET n == Len(ts) \div 2
        wins == { m \in 1..n : /\ ts[2 * m - 1].type = "BUY"
                               /\ ts[2 * m].type = "SELL"
                               /\ FGt(ts[2 * m].price, ts[2 * m - 1].price) }
    IN  IF n = 0 THEN Zero ELSE FDiv(R(Cardinality(wins)), R(n))

\* C5: the win_rate calculate_metrics returns is wins / num_trades by positional
\* pairing, with num_trades = floor(len(trades) / 2), and 0 when num_trades is 0.
C5_WinRatePositional ==
    \A t \in DOMAIN pc :
        GotMetrics(t) => ret[t].dict.win_rate = PositionalWinRate(trades[ret[t].engine])

\* C5, restricted to trade lists of even length on an engine run once.
C5_WinRateEvenFirstRun ==
    \A t \in DOMAIN pc :
        (GotMetrics(t) /\ ncalls[ret[t].engine] <= 1 /\ Len(trades[ret[t].engine]) % 2 = 0)
            => ret[t].dict.win_rate = PositionalWinRate(trades[ret[t].engine])

\* The neutral metrics of an engine without records.
NeutralMetrics(e) ==
    [total_return |-> Zero, sharpe_ratio |-> Zero, max_drawdown |-> Zero,
     win_rate |-> Zero, num_trades |-> Zero, final_equity |-> initial_capital[e]]

\* C6: calculate_metrics on an engine without position records returns the
\* neutral defaults.
C6_NeutralDefaults ==
    \A t \in DOMAIN pc :
        (pc[t] = "idle" /\ ret[t].kind = "metrics" /\ positions[ret[t].engine] = <<>>)
            => ret[t].dict = NeutralMetrics(ret[t].engine)

\* Invalid input of a run_backtest call: no bars, or initial_capital <= 0.
InvalidInput(t) == data[t] = <<>> \/ ~ValidCapital(self[t])

\* C7: a run_backtest call on invalid input fails at once: it appends nothing to
\* the engine's lists and does not return a result.
C7_InvalidInputRejected ==
    \A t \in DOMAIN pc :
        InvalidInput(t) =>
            /\ ~Returned(t)
            /\ (pc[t] = "loop" =>
                   /\ Len(positions[self[t]]) = base[t].positions
                   /\ Len(trades[self[t]]) = base[t].trades)

\* C8: what a run reports holds only entries of that run: when it has returned,
\* no entry of the engine's position and trade lists is older than the call.
C8_LogsFreshPerRun ==
    \A t \in DOMAIN pc :
        Returned(t) =>
            /\ SubSeq(ret[t].rows, 1, base[t].positions) = <<>>
            /\ SubSeq(trades[self[t]], 1, base[t].trades) = <<>>

\* C9: two runs with equal initial_capital, bars and strategy, each the only
\* run of its own engine, return the same records and leave the same trades.
C9_Deterministic ==
    \A t1, t2 \in DOMAIN pc :
        ( /\ t1 # t2 /\ self[t1] # self[t2]
          /\ Returned(t1) /\ Returned(t2)
          /\ ncalls[self[t1]] = 1 /\ ncalls[self[t2]] = 1
          /\ initial_capital[self[t1]] = initial_capital[self[t2]]
          /\ data[t1] = data[t2] /\ strategy[t1] = strategy[t2] )
        => /\ ret[t1].rows = ret[t2].rows
           /\ trades[self[t1]] = trades[self[t2]]

\* C9's case: both callers have returned from such runs, in which a position
\* was opened and closed again.
C9_Witness ==
    /\ DOMAIN pc = Threads
    /\ self[1] # self[2]
    /\ Returned(1) /\ Returned(2)
    /\ ncalls[self[1]] = 1 /\ ncalls[self[2]] = 1
    /\ initial_capital[self[1]] = initial_capital[self[2]]
    /\ data[1] = data[2] /\ strategy[1] = strategy[2]
    /\ Len(trades[self[1]]) >= 2 /\ Len(trades[self[2]]) >= 2

\* A strategy that emits HOLD or SELL on every bar.
NeverBuys(s) == \A k \in 1..Len(s) : s[k] \in {"HOLD", "SELL"}

\* C10: when a run on valid input with a strategy that never emits BUY has
\* returned, the engine's trade list is empty and the last record's equity is
\* initial_capital.
C10_NoBuyNoTrades ==
    \A t \in DOMAIN pc :
        (ReturnedValid(t) /\ NeverBuys(strategy[t])) =>
            /\ trades[self[t]] = <<>>
            /\ ret[t].rows[Len(ret[t].rows)].equity = initial_capital[self[t]]

\* C10, restricted to the first run on an engine.
C10_NoBuyNoTradesFirstRun ==
    \A t \in DOMAIN pc :
        (Returned(t) /\ data[t] # <<>> /\ NeverBuys(strategy[t]) /\ ncalls[self[t]] = 1) =>
            /\ trades[self[t]] = <<>>
            /\ ret[t].rows[Len(ret[t].rows)].equity = initial_capital[self[t]]

\* C10's equity half alone, over all runs.
C10_NoBuyKeepsEquity ==
    \A t \in DOMAIN pc :
        (Returned(t) /\ data[t] # <<>> /\ NeverBuys(strategy[t])) =>
            ret[t].rows[Len(ret[t].rows)].equity = initial_capital[self[t]]

\* A strategy that emits HOLD on every bar.
AllHold(s) == \A k \in 1..Len(s) : s[k] = "HOLD"

\* A thread that, after its last run_backtest call on valid input returned,
\* asked the same engine for its metrics.
MetricsAfterRun(t) ==
    /\ GotMetrics(t) /\ ret[t].engine = self[t]
    /\ data[t] # <<>> /\ ValidCapital(self[t])

\* C11: after a run on valid input with a strategy that emits HOLD on every
\* bar, every record the run returns has equity == initial_capital, and the
\* metrics then computed have sharpe_ratio == 0 and max_drawdown == 0.
C11_AllHoldFlat ==
    \A t \in DOMAIN pc :
        /\ (ReturnedValid(t) /\ AllHold(strategy[t])) =>
               \A k \in 1..Len(ret[t].rows) :
                   ret[t].rows[k].equity = initial_capital[self[t]]
        /\ (MetricsAfterRun(t) /\ AllHold(strategy[t])) =>
               /\ ret[t].dict.sharpe_ratio = Zero
               /\ ret[t].dict.max_drawdown = Zero

\* C11, restricted to the first run on an engine.
C11_AllHoldFlatFirstRun ==
    \A t \in DOMAIN pc :
        /\ (ReturnedValid(t) /\ AllHold(strategy[t]) /\ ncalls[self[t]] = 1) =>
               \A k \in 1..Len(ret[t].rows) :
                   ret[t].rows[k].equity = initial_capital[self[t]]
        /\ (MetricsAfterRun(t) /\ AllHold(strategy[t]) /\ ncalls[self[t]] = 1) =>
               /\ ret[t].dict.sharpe_ratio = Zero
               /\ ret[t].dict.max_drawdown = Zero

\* C12: the metrics computed after a run on valid input of exactly one bar,
\* whatever the strategy emitted on it, have total_return == 0,
\* sharpe_ratio == 0 and max_drawdown == 0.
C12_SingleBarNeutral ==
    \A t \in DOMAIN pc :
        (MetricsAfterRun(t) /\ Len(data[t]) = 1) =>
            /\ ret[t].dict.total_return = Zero
            /\ ret[t].dict.sharpe_ratio = Zero
            /\ ret[t].dict.max_drawdown = Zero

\* C12, restricted to the first run on an engine.
C12_SingleBarNeutralFirstRun ==
    \A t \in DOMAIN pc :
        (MetricsAfterRun(t) /\ Len(data[t]) = 1 /\ ncalls[self[t]] = 1) =>
            /\ ret[t].dict.total_return = Zero
            /\ ret[t].dict.sharpe_ratio = Zero
            /\ ret[t].dict.max_drawdown = Zero

\* The strategy of the worked scenario, by bar.
ScenarioSignals == <<"BUY", "HOLD", "SELL", "HOLD">>

\* A thread whose current or last run is the worked scenario.
RunsScenario(t) ==
    /\ data[t] = ScenarioBars /\ strategy[t] = ScenarioSignals
    /\ initial_capital[self[t]] = R(1000)
    /\ ncalls[self[t]] = 1

\* C13: the run of BUY, HOLD, SELL, HOLD over the closes 100, 110, 90, 120 with
\* initial_capital 1000 leaves the trades BUY at 100 of 10 shares and SELL at
\* 90 of 10 shares, returns the equities 1000, 1100, 900, 900, and its metrics
\* have total_return -1/10, num_trades 1 and win_rate 0.
C13_Scenario ==
    \A t \in DOMAIN pc :
        /\ (Returned(t) /\ RunsScenario(t)) =>
               /\ trades[self[t]] =
                      << [timestamp |-> 1, type |-> "BUY", price |-> R(100), shares |-> R(10)],
                         [timestamp |-> 3, type |-> "SELL", price |-> R(90), shares |-> R(10)] >>
               /\ EquityColumn(ret[t].rows) = <<R(1000), R(1100), R(900), R(900)>>
        /\ (MetricsAfterRun(t) /\ RunsScenario(t)) =>
               /\ ret[t].dict.total_return = <<-1, 10>>
               /\ ret[t].dict.num_trades = R(1)
               /\ ret[t].dict.win_rate = Zero

\* C13's case: the scenario has run and its metrics were computed.
C13_Witness == \E t \in DOMAIN pc : MetricsAfterRun(t) /\ RunsScenario(t)

\* C14: every position record of every engine satisfies
\* equity == capital + position * price, all four taken from the record.
C14_EquityIdentity ==
    \A e \in DOMAIN positions : \A k \in 1..Len(positions[e]) :
        LET r == positions[e][k]
        IN  r.equity = FAdd(r.capital, FMul(r.position, r.price))

\* C14's case: a record written while shares were held, whose equity
\* differs from its capital.
C14_Witness ==
    \E e \in DOMAIN positions : \E k \in 1..Len(positions[e]) :
        /\ FGt(positions[e][k].position, Zero)
        /\ positions[e][k].equity # positions[e][k].capital

\* Record rows[k] carries the timestamp and the close of bar bars[k], for
\* every k, and there are as many records as bars.
FollowsBars(rows, bars) ==
    /\ Len(rows) = Len(bars)
    /\ \A k \in 1..Len(bars) :
           /\ rows[k].timestamp = bars[k].timestamp
           /\ rows[k].price = R(bars[k].close)

\* C15: the records a run on valid input returns are one-to-one with its bars,
\* in order: record k carries the timestamp and the close of bar k, whether or
\* not a trade occurred on it.
C15_RecordsFollowBars ==
    \A t \in DOMAIN pc : ReturnedValid(t) => FollowsBars(ret[t].rows, data[t])

\* C15, restricted to the first run on an engine.
C15_RecordsFollowBarsFirstRun ==
    \A t \in DOMAIN pc :
        (Returned(t) /\ ncalls[self[t]] = 1) => FollowsBars(ret[t].rows, data[t])

\* C15 for the records a run appended itself: they follow its bars in every run.
C15_OwnRecordsFollowBars ==
    \A t \in DOMAIN pc :
        Returned(t) =>
            FollowsBars(SubSeq(ret[t].rows, base[t].positions + 1, Len(ret[t].rows)),
                        data[t])

\* The completed round trips of a trade list: its SELL entries, each of which
\* closed the position a BUY had opened.
RoundTrips(ts) == Cardinality({k \in 1..Len(ts) : ts[k].type = "SELL"})

\* C16: the num_trades calculate_metrics returns (engine with a valid
\* initial_capital) equals floor(len(trades) / 2) and is the number of
\* completed round trips, so that a BUY never closed does not add to it.
C16_CountsRoundTrips ==
    \A t \in DOMAIN pc :
        (GotMetrics(t) /\ ValidCapital(ret[t].engine)) =>
            /\ ret[t].dict.num_trades = R(Len(trades[ret[t].engine]) \div 2)
            /\ ret[t].dict.num_trades = R(RoundTrips(trades[ret[t].engine]))

\* C16, restricted to an engine on which at most one run was begun.
C16_CountsRoundTripsFirstRun ==
    \A t \in DOMAIN pc :
        (GotMetrics(t) /\ ValidCapital(ret[t].engine) /\ ncalls[ret[t].engine] <= 1) =>
            /\ ret[t].dict.num_trades = R(Len(trades[ret[t].engine]) \div 2)
            /\ ret[t].dict.num_trades = R(RoundTrips(trades[ret[t].engine]))

\* C16's arithmetic half alone, over all engines and runs.
C16_NumTradesIsHalf ==
    \A t \in DOMAIN pc :
        GotMetrics(t) => ret[t].dict.num_trades = R(Len(trades[ret[t].engine]) \div 2)

\* C17: the metrics of an engine with records have final_equity == the equity
\* of its last record and total_return == final_equity / initial_capital - 1.
C17_TotalReturn ==
    \A t \in DOMAIN pc :
        GotMetrics(t) =>
            LET e == ret[t].engine
                rows == positions[e]
            IN  /\ ret[t].dict.final_equity = rows[Len(rows)].equity
                /\ ret[t].dict.total_return =
                       FSub(FDiv(ret[t].dict.final_equity, initial_capital[e]), R(1))

\* C17's case: metrics of an engine whose last record's equity differs from
\* its first record's and from initial_capital.
C17_Witness ==
    \E t \in DOMAIN pc :
        /\ GotMetrics(t)
        /\ LET rows == positions[ret[t].engine]
           IN  /\ Len(rows) >= 2
               /\ rows[Len(rows)].equity # rows[1].equity
        /\ Finite(ret[t].dict.total_return)
        /\ ret[t].dict.total_return # Zero

\* peak[k]: the greatest of the equities eq[1..k].
Peak(eq, k) == CHOOSE m \in {eq[j] : j \in 1..k} : \A j \in 1..k : ~FGt(eq[j], m)

\* (equity[k] - peak[k]) / peak[k]
DrawdownAt(eq, k) == FDiv(FSub(eq[k], Peak(eq, k)), Peak(eq, k))

\* The equity never falls below an earlier peak.
NeverFalls(eq) == \A k \in 1..Len(eq) : eq[k] = Peak(eq, k)

\* max_drawdown md of the equities eq as the claim defines it: the least of
\* the drawdowns, at most 0, and 0 when the equity never falls.
IsMaxDrawdown(md, eq) ==
    /\ \E k \in 1..Len(eq) : md = DrawdownAt(eq, k)
    /\ \A k \in 1..Len(eq) : ~FLt(DrawdownAt(eq, k), md)
    /\ (md = Zero \/ FLt(md, Zero))
    /\ (NeverFalls(eq) => md = Zero)

\* C18: the max_drawdown calculate_metrics returns is the minimum over the
\* records of (equity[k] - peak[k]) / peak[k], with peak[k] the running maximum
\* of the equity; it is <= 0, and 0 when the equity never falls below a peak.
C18_MaxDrawdown ==
    \A t \in DOMAIN pc :
        GotMetrics(t) =>
            IsMaxDrawdown(ret[t].dict.max_drawdown,
                          EquityColumn(positions[ret[t].engine]))

\* C18, restricted to engines constructed with an initial_capital other than 0.
C18_MaxDrawdownNonZeroCapital ==
    \A t \in DOMAIN pc :
        (GotMetrics(t) /\ initial_capital[ret[t].engine] # Zero) =>
            IsMaxDrawdown(ret[t].dict.max_drawdown,
                          EquityColumn(positions[ret[t].engine]))

\* The strategy returns a value that is no signal on bar k (1-based) of the
\* current or last run of thread t.
UnknownSignalAt(t, k) == strategy[t][k] \notin Signals \cup {"RAISE"}

\* C19: a run (engine with a valid initial_capital) does not get past a bar on
\* which the strategy returned a value other than BUY, SELL and HOLD: it
\* writes no record for that bar and does not return a result.
C19_UnknownSignalPropagates ==
    \A t \in DOMAIN pc : \A k \in 1..Len(strategy[t]) :
        (ValidCapital(self[t]) /\ UnknownSignalAt(t, k)) => (i[t] < k /\ ~Returned(t))

\* A step in which thread t, outside run_backtest before and after, comes to
\* hold a metrics dict: a calculate_metrics call of t.
MetricsStep(t) == pc[t] = "idle" /\ pc'[t] = "idle" /\ ret'[t].kind = "metrics"

\* C20: a calculate_metrics call leaves the trade list, the position records
\* and the equity curve of every engine as they were, and a call that follows
\* a call on the same engine with no run in between returns the same dict.
C20_MetricsStateless ==
    [][ \A t \in DOMAIN pc :
            MetricsStep(t) =>
                /\ trades' = trades
                /\ positions' = positions
                /\ equity_curve' = equity_curve
                /\ (ret[t].kind = "metrics" /\ ret[t].engine = ret'[t].engine)
                       => ret'[t].dict = ret[t].dict ]_vars

\* C20's case: the metrics of an engine that holds trades and records were
\* computed, and the engine still holds them.
C20_Witness ==
    \E t \in DOMAIN pc :
        /\ GotMetrics(t)
        /\ Len(trades[ret[t].engine]) >= 2
        /\ Len(positions[ret[t].engine]) >= 2
        /\ ret[t].dict.win_rate # Zero

\* A step in which thread t completes one iteration of the loop of run_backtest.
Iteration(t) == pc[t] = "loop" /\ i'[t] = i[t] + 1

\* The bar of the iteration thread t is about to make: what the strategy
\* returns on it, its timestamp and its close.
SignalNow(t) == strategy[t][i[t] + 1]
TimeNow(t) == data[t][i[t] + 1].timestamp
PriceNow(t) == R(data[t][i[t] + 1].close)

\* C21: an iteration with signal BUY while flat (position == 0) sets
\* position = capital / current_price and capital = 0 and appends exactly one
\* trade: a BUY with the bar's timestamp, the bar's close and the new position.
C21_BuyTransition ==
    [][ \A t \in DOMAIN pc :
            (Iteration(t) /\ SignalNow(t) = "BUY" /\ position[t] = Zero) =>
                /\ position'[t] = FDiv(capital[t], PriceNow(t))
                /\ capital'[t] = Zero
                /\ trades'[self[t]] =
                       Append(trades[self[t]],
                              [timestamp |-> TimeNow(t), type |-> "BUY",
                               price |-> PriceNow(t), shares |-> position'[t]]) ]_vars

\* C21's case: the bar just processed had a close other than 1 and signal BUY,
\* and the BUY was executed: shares are held and the last trade is that BUY.
C21_Witness ==
    \E t \in DOMAIN pc :
        /\ pc[t] = "loop" /\ i[t] >= 1
        /\ strategy[t][i[t]] = "BUY"
        /\ data[t][i[t]].close # 1
        /\ FGt(position[t], Zero)
        /\ trades[self[t]] # <<>>
        /\ trades[self[t]][Len(trades[self[t]])] =
               [timestamp |-> data[t][i[t]].timestamp, type |-> "BUY",
                price |-> R(data[t][i[t]].close), shares |-> position[t]]

\* C22: an iteration with signal SELL while shares are held (position > 0)
\* sets capital = position * current_price and position = 0 and appends
\* exactly one trade: a SELL whose shares are the position held before the
\* sale, which are the shares of the BUY that is the trade before it.
C22_SellTransition ==
    [][ \A t \in DOMAIN pc :
            (Iteration(t) /\ SignalNow(t) = "SELL" /\ FGt(position[t], Zero)) =>
                LET ts == trades[self[t]]
                IN  /\ capital'[t] = FMul(position[t], PriceNow(t))
                    /\ position'[t] = Zero
                    /\ trades'[self[t]] =
                           Append(ts, [timestamp |-> TimeNow(t), type |-> "SELL",
                                       price |-> PriceNow(t), shares |-> position[t]])
                    /\ ts # <<>>
                    /\ ts[Len(ts)].type = "BUY"
                    /\ ts[Len(ts)].shares = position[t] ]_vars

\* C22's case: the bar just processed had a close other than 1 and signal SELL,
\* and the SELL was executed: the last trade is that SELL, of shares other
\* than the proceeds, and the run is flat again.
C22_Witness ==
    \E t \in DOMAIN pc :
        /\ pc[t] = "loop" /\ i[t] >= 2
        /\ strategy[t][i[t]] = "SELL"
        /\ data[t][i[t]].close # 1
        /\ position[t] = Zero
        /\ FGt(capital[t], Zero)
        /\ Len(trades[self[t]]) >= 2
        /\ LET last == trades[self[t]][Len(trades[self[t]])]
           IN  /\ last.type = "SELL"
               /\ last.timestamp = data[t][i[t]].timestamp
               /\ last.shares # capital[t]

\* The signal of thread t's next bar does not match its position: HOLD, BUY
\* while shares are held, SELL while flat.
NoOpNow(t) ==
    \/ SignalNow(t) = "HOLD"
    \/ SignalNow(t) = "BUY" /\ FGt(position[t], Zero)
    \/ SignalNow(t) = "SELL" /\ position[t] = Zero

\* C23: an iteration whose signal does not match the position leaves capital
\* and position unchanged and appends no trade; it appends the bar's record
\* (and its equity), and nothing else.
C23_NoOp ==
    [][ \A t \in DOMAIN pc :
            (Iteration(t) /\ NoOpNow(t)) =>
                LET e == self[t]
                IN  /\ capital'[t] = capital[t]
                    /\ position'[t] = position[t]
                    /\ trades' = trades
                    /\ Len(positions'[e]) = Len(positions[e]) + 1
                    /\ SubSeq(positions'[e], 1, Len(positions[e])) = positions[e]
                    /\ positions'[e][Len(positions'[e])].timestamp = TimeNow(t)
                    /\ positions'[e][Len(positions'[e])].price = PriceNow(t)
                    /\ equity_curve'[e] =
                           Append(equity_curve[e], positions'[e][Len(positions'[e])].equity) ]_vars

\* C23's case: the bar just processed had signal BUY while shares were held
\* since an earlier bar; they are still held and the BUY of the earlier bar is
\* still the last trade.
C23_Witness ==
    \E t \in DOMAIN pc :
        /\ pc[t] = "loop" /\ i[t] >= 2
        /\ strategy[t][i[t]] = "BUY"
        /\ FGt(position[t], Zero)
        /\ trades[self[t]] # <<>>
        /\ trades[self[t]][Len(trades[self[t]])].timestamp < data[t][i[t]].timestamp
        /\ Len(positions[self[t]]) = base[t].positions + i[t]

\* The indices 0, 1, ..., n-1 in ascending order.
Indices(n) == [k \in 1..n |-> k - 1]

\* A strategy that raises on no bar.
NeverRaises(s) == \A k \in 1..Len(s) : s[k] # "RAISE"

\* C24: the calls of the strategy a run has made are those with the indices
\* 0, 1, 2, ... in ascending order, one per bar begun, each with the index of
\* the bar then current; a run over n bars that has returned has made exactly
\* n, and a run whose strategy raises on no bar does return, every bar processed.
C24_StrategyPerBar ==
    /\ [](\A t \in DOMAIN pc :
             /\ invoked[t] = Indices(Len(invoked[t]))
             /\ pc[t] = "loop" => Len(invoked[t]) = i[t]
             /\ Returned(t) =>
                    /\ invoked[t] = Indices(Len(data[t]))
                    /\ Len(positions[self[t]]) = base[t].positions + Len(data[t]))
    /\ (pc[1] = "loop" /\ NeverRaises(strategy[1]))
           ~> (Returned(1) /\ invoked[1] = Indices(Len(data[1])))

\* C24's case: a run over several bars has returned.
C24_Witness ==
    \E t \in DOMAIN pc : Returned(t) /\ Len(data[t]) >= 2 /\ Len(invoked[t]) >= 2

\* Thread t is in a run or has returned from one or was left by its exception.
HasRun(t) == pc[t] # "idle" \/ ret[t].kind = "frame"

\* The lists of the engine thread t runs on are what its run, as far as it has
\* got, leaves when it executes alone on a new engine.
LogsAsAlone(t) ==
    LET e == self[t]
        r == RunAlone(initial_capital[e], data[t], strategy[t], i[t])
    IN  /\ trades[e] = r.trades
        /\ positions[e] = r.positions
        /\ equity_curve[e] = r.equity_curve

\* C25: at every point of every interleaving of two runs on engines
\* constructed independently, the trade list, the position records and the
\* equity curve of each engine are those of its own run executed alone.
C25_NoInterference ==
    \A t \in DOMAIN pc : (HasRun(t) /\ ncalls[self[t]] = 1) => LogsAsAlone(t)

\* C25's case: both runs are under way on their own engines, each has
\* processed a bar and has traded.
C25_Witness ==
    /\ DOMAIN pc = Threads
    /\ self[1] # self[2]
    /\ pc[1] = "loop" /\ pc[2] = "loop"
    /\ i[1] >= 1 /\ i[2] >= 1
    /\ ncalls[self[1]] = 1 /\ ncalls[self[2]] = 1
    /\ trades[self[1]] # <<>> /\ trades[self[2]] # <<>>

\* The converse of C25, as the statement that fails when the instance is
\* shared: a run that began on an engine without records leaves the lists its
\* execution alone leaves.
C25_SharedInstanceAsAlone ==
    \A t \in DOMAIN pc :
        (Returned(t) /\ base[t].positions = 0 /\ base[t].trades = 0) => LogsAsAlone(t)

\* C26: when the strategy has raised on bar i of a run, the exception has left
\* run_backtest, and the engine's lists hold, after what they held when the
\* run began, exactly the entries of the bars 0..i-1 of that run: none for
\* bar i, none taken back.
C26_RaiseLeavesPartialTrace ==
    \A t \in DOMAIN pc :
        pc[t] = "raised" =>
            LET e == self[t]
                r == RunAlone(initial_capital[e], data[t], strategy[t], i[t])
            IN  /\ ret[t] = Raised
                /\ StrategyCall(strategy[t], data[t], i[t]) = "RAISE"
                /\ Len(positions[e]) = base[t].positions + i[t]
                /\ SubSeq(positions[e], base[t].positions + 1, Len(positions[e]))
                       = r.positions
                /\ SubSeq(equity_curve[e], base[t].positions + 1, Len(equity_curve[e]))
                       = r.equity_curve
                /\ SubSeq(trades[e], base[t].trades + 1, Len(trades[e])) = r.trades

\* C26's case: the strategy raised after the run had processed bars and traded.
C26_Witness ==
    \E t \in DOMAIN pc :
        /\ pc[t] = "raised" /\ i[t] >= 1
        /\ Len(trades[self[t]]) > base[t].trades

\* The iteration thread t is about to make executes a trade.
TradesNow(t) ==
    \/ SignalNow(t) = "BUY" /\ position[t] = Zero
    \/ SignalNow(t) = "SELL" /\ FGt(position[t], Zero)

\* C27: the equity of a bar on which a BUY or a SELL executes is
\* capital + position * close taken with the capital and position from before
\* the trade; and the equity of a bar differs from that of the bar before (at
\* the first bar: from initial_capital) only if a position was held over.
C27_TradeKeepsValue ==
    [][ \A t \in DOMAIN pc :
            /\ (Iteration(t) /\ TradesNow(t)) =>
                   equity'[t] = FAdd(capital[t], FMul(position[t], PriceNow(t)))
            /\ (Iteration(t) /\ equity'[t] # equity[t]) => position[t] # Zero ]_vars

\* C27's case: the bar just processed executed a SELL at a close other than 1
\* that brought a capital other than initial_capital.
C27_Witness ==
    \E t \in DOMAIN pc :
        /\ pc[t] = "loop" /\ i[t] >= 2
        /\ strategy[t][i[t]] = "SELL"
        /\ data[t][i[t]].close # 1
        /\ position[t] = Zero
        /\ Len(trades[self[t]]) > base[t].trades
        /\ trades[self[t]][Len(trades[self[t]])].timestamp = data[t][i[t]].timestamp
        /\ trades[self[t]][Len(trades[self[t]])].type = "SELL"
        /\ equity[t] = capital[t]
        /\ capital[t] # initial_capital[self[t]]

TradesWithin(ts, k) ==
    LET Within(x) == x.timestamp <= k
    IN  SelectSeq(ts, Within)

\* C29: of two new engines with the same initial_capital and a strategy that
\* decides by the bars up to the current one, one run on the first k bars of a
\* series, the other on more of it and past bar k: the first k records of the
\* longer run are the records of the shorter, and its trades within the first
\* k bars are the trades of the shorter.
C29_PrefixConsistent ==
    \A t1, t2 \in DOMAIN pc :
        ( /\ t1 # t2 /\ self[t1] # self[t2]
          /\ ncalls[self[t1]] = 1 /\ ncalls[self[t2]] = 1
          /\ initial_capital[self[t1]] = initial_capital[self[t2]]
          /\ HasRun(t1) /\ Returned(t2)
          /\ IsPrefix(data[t2], data[t1]) /\ IsPrefix(strategy[t2], strategy[t1])
          /\ i[t1] >= Len(data[t2]) )
        => /\ SubSeq(positions[self[t1]], 1, Len(data[t2])) = ret[t2].rows
           /\ TradesWithin(trades[self[t1]], Len(data[t2])) = trades[self[t2]]

\* C29's case: the shorter run has returned with a trade, and the longer run
\* has gone past its last bar and has traded again there.
C29_Witness ==
    /\ DOMAIN pc = Threads
    /\ self[1] # self[2]
    /\ ncalls[self[1]] = 1 /\ ncalls[self[2]] = 1
    /\ Returned(2) /\ HasRun(1)
    /\ Len(data[2]) >= 1 /\ Len(data[1]) > Len(data[2])
    /\ i[1] > Len(data[2])
    /\ trades[self[2]] # <<>>
    /\ Len(trades[self[1]]) > Len(trades[self[2]])

\* The trades the current or last run of thread t has appended.
OwnTrades(t) == SubSeq(trades[self[t]], base[t].trades + 1, Len(trades[self[t]]))

\* C30: the trades a run has appended are at most as many as the bars it has
\* processed, each carries the timestamp and the close of one of those bars,
\* and their timestamps increase strictly: at most one trade per bar.
C30_OneTradePerBar ==
    \A t \in DOMAIN pc :
        HasRun(t) =>
            LET own == OwnTrades(t)
            IN  /\ Len(own) <= i[t]
                /\ \A j \in 1..Len(own) : \E k \in 1..i[t] :
                       /\ own[j].timestamp = data[t][k].timestamp
                       /\ own[j].price = R(data[t][k].close)
                /\ \A j \in 1..(Len(own) - 1) : own[j].timestamp < own[j + 1].timestamp

\* C30's case: a run of MaxBars bars that has appended a trade on every bar.
C30_Witness ==
    \E t \in DOMAIN pc :
        /\ HasRun(t)
        /\ Len(OwnTrades(t)) = i[t]
        /\ i[t] >= MaxBars

====
